---- MODULE Spec2Model ----
(***************************************************************************)
(* Decision-and-simulation core of the trading research backend:           *)
(* EnsembleModel.combine (app/models/ensemble.py), the risk constraints,   *)
(* position sizing and transaction-cost model, and BacktestEngine.run      *)
(* (app/backtest/engine.py).                                               *)
(*                                                                         *)
(* Numbers.  Scores, confidences, weights and the other dimensionless      *)
(* quantities are exact rationals <<n, d>> in lowest terms (d > 0), so the *)
(* ensemble arithmetic is the real-number reading of the float code.       *)
(* Money, prices and share counts of the engine are integers in fixed      *)
(* units (see the engine section).                                         *)
(***************************************************************************)
EXTENDS Integers, Sequences, FiniteSets, TLC

(***************************************************************************)
(* Optional values (Python None)                                           *)
(***************************************************************************)
None == {}
Some(x) == {x}
IsNone(o) == o = {}
The(o) == CHOOSE x \in o : TRUE

(***************************************************************************)
(* Exact rational arithmetic                                               *)
(***************************************************************************)
Abs(x) == IF x < 0 THEN -x ELSE x

RECURSIVE GCD(_, _)
GCD(a, b) == IF b = 0 THEN a ELSE GCD(b, a % b)

Rat(n, d) ==
    LET s == IF d < 0 THEN -1 ELSE 1
        g == GCD(Abs(n), Abs(d))
    IN  <<(s * n) \div g, (s * d) \div g>>

Zero == <<0, 1>>
One == <<1, 1>>
RAdd(a, b) == Rat(a[1] * b[2] + b[1] * a[2], a[2] * b[2])
RNeg(a) == <<-a[1], a[2]>>
RSub(a, b) == RAdd(a, RNeg(b))
RMul(a, b) == Rat(a[1] * b[1], a[2] * b[2])
RDiv(a, b) == Rat(a[1] * b[2], a[2] * b[1])
RLt(a, b) == a[1] * b[2] < b[1] * a[2]
RLe(a, b) == a[1] * b[2] <= b[1] * a[2]
RMin(a, b) == IF RLe(a, b) THEN a ELSE b
RMax(a, b) == IF RLe(a, b) THEN b ELSE a
RAbs(a) == <<Abs(a[1]), a[2]>>

(***************************************************************************)
(* Signal names                                                            *)
(***************************************************************************)
MomentumName == "Trend (recent price strength)"
MeanReversionName == "Pullback vs average"
RegimeName == "Market Regime (trend/vol filter)"
RegimeGateName == "Regime Filter"

SignalResult(name, score, confidence) ==
    [name |-> name, score |-> score, confidence |-> confidence]

(***************************************************************************)
(* EnsembleModel                                                           *)
(***************************************************************************)
EnsembleModel(signal_weights, regime_weight, threshold) ==
    [signal_weights |-> signal_weights,
     regime_weight |-> regime_weight,
     threshold |-> threshold]

RECURSIVE SumValues(_, _)
SumValues(f, keys) ==
    IF keys = {} THEN Zero
    ELSE LET k == CHOOSE x \in keys : TRUE
         IN  RAdd(f[k], SumValues(f, keys \ {k}))

Get(w, name) == IF name \in DOMAIN w THEN w[name] ELSE Zero

trading_signals(signals) ==
    SelectSeq(signals, LAMBDA s : s.name # RegimeGateName)

regime_signal(signals) ==
    LET rs == SelectSeq(signals, LAMBDA s : s.name = RegimeGateName)
    IN  IF rs = <<>> THEN None ELSE Some(rs[Len(rs)])

weights(self, signals) ==
    LET ts == trading_signals(signals)
        sw == self.signal_weights
    IN  IF DOMAIN sw = {}
        THEN [nm \in {ts[k].name : k \in DOMAIN ts} |-> Rat(1, Len(ts))]
        ELSE LET total_weight == SumValues(sw, DOMAIN sw)
             IN  IF RLt(Zero, total_weight)
                 THEN [k \in DOMAIN sw |-> RDiv(sw[k], total_weight)]
                 ELSE sw

\* Variant: each contribution is also multiplied by the signal's confidence.
RECURSIVE SumScoresTimesConfidence(_, _)
SumScoresTimesConfidence(ts, w) ==
    IF ts = <<>> THEN Zero
    ELSE RAdd(RMul(RMul(Get(w, Head(ts).name), Head(ts).score),
                   Head(ts).confidence),
              SumScoresTimesConfidence(Tail(ts), w))

RECURSIVE SumScores(_, _)
SumScores(ts, w) ==
    IF ts = <<>> THEN Zero
    ELSE RAdd(RMul(Get(w, Head(ts).name), Head(ts).score),
              SumScores(Tail(ts), w))

RECURSIVE SumConfidences(_, _)
SumConfidences(ts, w) ==
    IF ts = <<>> THEN Zero
    ELSE RAdd(RMul(Head(ts).confidence, Get(w, Head(ts).name)),
              SumConfidences(Tail(ts), w))

regime_multiplier(signals) ==
    LET rg == regime_signal(signals)
    IN  IF IsNone(rg) THEN One
        ELSE RMax(Zero, RMin(One, The(rg).score))

\* Variant: the blend of 1.0 and raw_score_scale is taken the wrong way round.
score_scale_swapped(self, signals) ==
    IF IsNone(regime_signal(signals)) THEN One
    ELSE LET raw_score_scale ==
                 IF RLt(regime_multiplier(signals), <<1, 2>>)
                 THEN <<1, 2>> ELSE One
         IN  RAdd(RMul(RSub(One, self.regime_weight), raw_score_scale),
                  RMul(self.regime_weight, One))

score_scale(self, signals) ==
    IF IsNone(regime_signal(signals)) THEN One
    ELSE LET raw_score_scale ==
                 IF RLt(regime_multiplier(signals), <<1, 2>>)
                 THEN <<1, 2>> ELSE One
         IN  RAdd(RMul(RSub(One, self.regime_weight), One),
                  RMul(self.regime_weight, raw_score_scale))

weighted_sum(self, signals) ==
    RMul(SumScores(trading_signals(signals), weights(self, signals)),
         score_scale(self, signals))

direction(self, signals) ==
    LET ws == weighted_sum(self, signals)
    IN  IF RLt(self.threshold, ws) THEN "long"
        ELSE IF RLt(ws, RNeg(self.threshold)) THEN "short"
        ELSE "flat"

base_confidence(self, signals) ==
    LET ts == trading_signals(signals)
    IN  IF ts # <<>> THEN SumConfidences(ts, weights(self, signals))
        ELSE Zero

conf_scale(self, signals) ==
    LET raw_conf_scale ==
            RAdd(<<7, 10>>, RMul(<<3, 10>>, regime_multiplier(signals)))
    IN  RAdd(RMul(RSub(One, self.regime_weight), One),
             RMul(self.regime_weight, raw_conf_scale))

\* Variant: the confidence is not clamped to [0, 1].
confidence_unclamped(self, signals) ==
    RMul(base_confidence(self, signals), conf_scale(self, signals))

confidence(self, signals) ==
    RMax(RMin(RMul(base_confidence(self, signals),
                   conf_scale(self, signals)), One), Zero)

combine(self, signals) ==
    IF signals = <<>>
    THEN [direction |-> "flat", confidence |-> Zero,
          suggested_position_size |-> None]
    ELSE LET dir == direction(self, signals)
             conf == confidence(self, signals)
             magnitude == RAbs(weighted_sum(self, signals))
         IN  [direction |-> dir,
              confidence |-> conf,
              suggested_position_size |->
                  IF dir # "flat"
                  THEN Some(RMin(RMul(conf, magnitude), One))
                  ELSE Some(Zero)]

update_weights(self, new_weights) ==
    [self EXCEPT !.signal_weights =
        [k \in DOMAIN self.signal_weights \cup DOMAIN new_weights |->
            IF k \in DOMAIN new_weights THEN new_weights[k]
            ELSE self.signal_weights[k]]]

set_threshold(self, threshold) == [self EXCEPT !.threshold = threshold]

(***************************************************************************)
(* Fixed-point quantities of the engine                                    *)
(*                                                                         *)
(* A price is a whole number of dollars, a position a whole number of      *)
(* shares, and every money amount (cash, equity, entry_value, cost, pnl)   *)
(* a whole number of money units, MoneyScale units to the dollar;          *)
(* entry_price is in money units per share.  One share is far above the    *)
(* 1e-6 tolerances of the engine, so abs(x) > 1e-6 reads x # 0 and         *)
(* abs(x) < 1e-6 reads x = 0.  Quotients are rounded down to the unit.     *)
(***************************************************************************)
MoneyScale == 10000 \div 5

\* floor(a * n / d) for a >= 0, n >= 0, d > 0, without a wide intermediate product
MulDiv(a, n, d) == (a \div d) * n + ((a % d) * n) \div d

\* a * r for a money amount a >= 0 and a rational r >= 0
Scale(a, r) == MulDiv(a, r[1], r[2])

RECURSIVE ISqrtFrom(_, _)
ISqrtFrom(x, k) == IF (k + 1) * (k + 1) > x THEN k ELSE ISqrtFrom(x, k + 1)
\* floor(sqrt(x)) for x >= 0
ISqrt(x) == ISqrtFrom(x, 0)

SqrtScale == 1000

Min(a, b) == IF a <= b THEN a ELSE b
Last(s) == s[Len(s)]

(***************************************************************************)
(* Settings (app/core/config.py)                                           *)
(***************************************************************************)
settings ==
    [target_volatility |-> <<1, 100>>,
     max_position_size |-> One,
     max_leverage |-> One,
     transaction_cost_bps |-> 5,
     slippage_factor |-> <<1, 1000>>]

(***************************************************************************)
(* TransactionCostModel                                                    *)
(***************************************************************************)
TransactionCostModel ==
    [fixed_bps |-> settings.transaction_cost_bps,
     slippage_factor |-> settings.slippage_factor]

\* A cost model whose compute_cost returns 0: both rates are 0.  The
\* constructor replaces a rate of 0 by the setting (`fixed_bps or ...`), so
\* this is a model whose attributes were set after construction.
FreeCostModel == [fixed_bps |-> 0, slippage_factor |-> Zero]

\* trade_size in money units, price in dollars, volume in shares,
\* volatility a rational; the result in money units
compute_cost(self, trade_size, price, volume, volatility) ==
    IF trade_size <= 0 \/ price <= 0 THEN 0
    ELSE LET fixed_cost == MulDiv(trade_size, self.fixed_bps, 10000)
             \* sqrt(trade_size / (volume * price)), in 1/SqrtScale
             sqrt_trade_ratio ==
                 ISqrt(MulDiv(trade_size \div (price * MoneyScale),
                              SqrtScale * SqrtScale, volume))
             slippage_cost ==
                 IF volume > 0
                 THEN MulDiv(Scale(Scale(trade_size,
                                         RMul(self.slippage_factor, volatility)),
                                   <<price, 1>>),
                             sqrt_trade_ratio, SqrtScale)
                 ELSE 0
         IN  fixed_cost + slippage_cost

(***************************************************************************)
(* RiskConstraints                                                         *)
(***************************************************************************)
RiskConstraints(max_drawdown, max_daily_loss) ==
    [max_leverage |-> settings.max_leverage,
     max_drawdown |-> max_drawdown,
     max_daily_loss |-> max_daily_loss,
     turnover_threshold |-> <<1, 10>>]

apply_leverage_constraint(self, position_size) ==
    IF RLt(self.max_leverage, RAbs(position_size))
    THEN IF RLt(Zero, position_size) THEN self.max_leverage
         ELSE RNeg(self.max_leverage)
    ELSE position_size

\* Variant: the guard on peak_equity is written the wrong way round.
check_drawdown_stop_wrong_guard(self, current_equity, peak_equity) ==
    IF IsNone(self.max_drawdown) \/ peak_equity >= 0 THEN FALSE
    ELSE RLe(Rat(current_equity - peak_equity, peak_equity),
             The(self.max_drawdown))

check_drawdown_stop(self, current_equity, peak_equity) ==
    IF IsNone(self.max_drawdown) \/ peak_equity <= 0 THEN FALSE
    ELSE RLe(Rat(current_equity - peak_equity, peak_equity),
             The(self.max_drawdown))

check_daily_loss_stop(self, daily_return, initial_equity) ==
    IF IsNone(self.max_daily_loss) THEN FALSE
    ELSE RLe(daily_return, The(self.max_daily_loss))

\* Variant: only the confidence change is looked at.
should_trade_confidence_only(self, new_forecast, old_forecast, new_confidence, old_confidence) ==
    RLe(self.turnover_threshold, RAbs(RSub(new_confidence, old_confidence)))

should_trade(self, new_forecast, old_forecast, new_confidence, old_confidence) ==
    IF new_forecast # old_forecast THEN TRUE
    ELSE RLe(self.turnover_threshold,
             RAbs(RSub(new_confidence, old_confidence)))

(***************************************************************************)
(* Position sizing (app/portfolio/sizing.py)                               *)
(***************************************************************************)
VolFloor == <<1, 1000000>>

\* `x or default` of Python for an optional number: None and 0 give the default
OrDefault(x, default) == IF IsNone(x) \/ The(x) = Zero THEN default ELSE The(x)

compute_position_size(forecast_direction, forecast_confidence, realized_volatility, target_volatility, max_position_size) ==
    IF forecast_direction = "flat" THEN Zero
    ELSE LET target_vol == OrDefault(target_volatility, settings.target_volatility)
             max_size == OrDefault(max_position_size, settings.max_position_size)
             realized_vol_safe == RMax(realized_volatility, VolFloor)
             vol_targeted_size == RDiv(target_vol, realized_vol_safe)
             confidence_scaled_size == RMul(vol_targeted_size, forecast_confidence)
         IN  IF RLe(realized_volatility, Zero)
             THEN RMul(forecast_confidence, <<1, 2>>)
             ELSE RMax(RMin(confidence_scaled_size, max_size), Zero)

(***************************************************************************)
(* BacktestEngine                                                          *)
(*                                                                         *)
(* A bar is [close, volume, features]; bars[j] is the bar of date j, the   *)
(* dates being 1, 2, ... in increasing order.  features is the row that    *)
(* compute_all_features yields for that date; every column is a backward   *)
(* rolling statistic of the closes up to the date, so the row is carried   *)
(* with its bar instead of being recomputed:                               *)
(*   momentum, meanrev, regime : <<score, confidence>> the signal derives  *)
(*                               from the row, or None when it raises      *)
(*   realized_vol              : 20-day standard deviation of the daily    *)
(*                               returns, None = NaN                       *)
(***************************************************************************)
InitialCapital == 10000
MinBars == 60

BacktestEngine(ensemble_, constraints_, cost_model_, initial_capital_) ==
    [ensemble |-> ensemble_,
     constraints |-> constraints_,
     cost_model |-> cost_model_,
     initial_capital |-> initial_capital_ * MoneyScale,
     signals |-> <<MomentumName, MeanReversionName, RegimeName>>]

\* Local state of run() at the head of the loop, before any bar
RunStart(self) ==
    [pc |-> "loop",
     exit |-> "",
     i |-> 0,
     cash |-> self.initial_capital,
     position |-> 0,
     entry_value |-> 0,
     entry_price |-> 0,
     peak_equity |-> self.initial_capital,
     prev_forecast |-> "flat",
     prev_confidence |-> Zero,
     equity_history |-> <<>>,
     trades_history |-> <<>>]

\* Variant: the whole frame is used instead of the rows up to current_date.
available_bars_unfiltered(bars_, current_date) == bars_

\* bars.loc[bars.index <= current_date]
available_bars(bars_, current_date) == SubSeq(bars_, 1, Min(current_date, Len(bars_)))

\* Variant: one raising signal discards the results of the bar.
signal_results_all_or_nothing(self, avail, current_date) ==
    LET row == avail[current_date].features
    IN  IF IsNone(row.momentum) \/ IsNone(row.meanrev) \/ IsNone(row.regime) THEN <<>>
        ELSE <<SignalResult(self.signals[1], The(row.momentum)[1], The(row.momentum)[2]),
               SignalResult(self.signals[2], The(row.meanrev)[1], The(row.meanrev)[2]),
               SignalResult(self.signals[3], The(row.regime)[1], The(row.regime)[2])>>

\* signal.compute for the three signals in order; a raising signal is omitted
signal_results(self, avail, current_date) ==
    LET row == avail[current_date].features
        one(name, out) ==
            IF IsNone(out) THEN <<>>
            ELSE <<SignalResult(name, The(out)[1], The(out)[2])>>
    IN  one(self.signals[1], row.momentum)
        \o one(self.signals[2], row.meanrev)
        \o one(self.signals[3], row.regime)

\* 252 ** 0.5 = 15.8745..., to three decimals
Sqrt252 == <<127, 8>>

\* available_bars["close"].pct_change().rolling(20).std().iloc[-1]
daily_vol(avail) == Last(avail).features.realized_vol

\* daily_vol * (252 ** 0.5), replaced by 0.2 when NaN or non-positive
realized_vol(avail) ==
    LET v == daily_vol(avail)
    IN  IF IsNone(v) \/ RLe(RMul(The(v), Sqrt252), Zero) THEN <<1, 5>>
        ELSE RMul(The(v), Sqrt252)

Equity(r, price) == r.cash + r.position * price * MoneyScale

\* Variant: the point is stamped with the first date of the frame.
EquityPoint_first_date(current_date, current_equity, peak_equity) ==
    [date |-> 1,
     equity |-> current_equity,
     drawdown |-> IF peak_equity > 0
                  THEN Rat(current_equity - peak_equity, peak_equity)
                  ELSE Zero]

EquityPoint(current_date, current_equity, peak_equity) ==
    [date |-> current_date,
     equity |-> current_equity,
     drawdown |-> IF peak_equity > 0
                  THEN Rat(current_equity - peak_equity, peak_equity)
                  ELSE Zero]

\* Variant: a skipped bar leaves no equity point.
RecordSkippedBar_no_point(r, current_date, current_price) ==
    [r EXCEPT !.i = current_date]

\* Lines 110-123, 167-179: record the equity point of a skipped bar
RecordSkippedBar(r, current_date, current_price) ==
    [r EXCEPT !.i = current_date,
              !.equity_history =
                  Append(@, EquityPoint(current_date, Equity(r, current_price),
                                        r.peak_equity))]

Break(r, reason) == [r EXCEPT !.pc = "returned", !.exit = reason]

\* Lines 73-74: run() raises BacktestError and returns nothing
Raise(r, error) == [r EXCEPT !.pc = "raised", !.exit = error]

\* Lines 191-222: the position the forecast asks for, in shares
desired_shares(self, r, fc, avail, current_price) ==
    LET position_size_pct ==
            apply_leverage_constraint(self.constraints,
                compute_position_size(fc.direction, fc.confidence, realized_vol(avail),
                                      None, None))
        current_equity == Equity(r, current_price)
        desired_position_value == Scale(current_equity, position_size_pct)
        shares == IF current_price > 0
                  THEN desired_position_value \div (current_price * MoneyScale)
                  ELSE 0
    IN  IF fc.direction = "short" THEN -Abs(shares)
        ELSE IF fc.direction = "long" THEN Abs(shares)
        ELSE 0

\* Variant: a partial close leaves the whole cost basis on the remaining shares.
PartialClose_full_basis(r, shares_closed) ==
    LET remaining_shares == Abs(r.position) - shares_closed
    IN  [entry_value |-> r.entry_value,
         entry_price |-> IF remaining_shares > 0
                         THEN r.entry_value \div remaining_shares
                         ELSE 0]

\* Lines 277-284: a partial close shrinks entry_value by remaining_ratio
PartialClose(r, shares_closed) ==
    LET remaining_shares == Abs(r.position) - shares_closed
        entry_value == MulDiv(r.entry_value, remaining_shares, Abs(r.position))
    IN  [entry_value |-> entry_value,
         entry_price |-> IF remaining_shares > 0
                         THEN entry_value \div remaining_shares
                         ELSE 0]

\* Lines 245-300: realized P&L and cost basis by kind of position change
CostBasisTransition(r, desired, current_price) ==
    LET position == r.position
        trade_shares == desired - position
        price == current_price * MoneyScale
    IN  IF position = 0
        THEN [trade_pnl |-> 0,
              entry_value |-> Abs(trade_shares) * price,
              entry_price |-> price]
        ELSE IF (position > 0 /\ trade_shares > 0) \/ (position < 0 /\ trade_shares < 0)
        THEN LET entry_value == r.entry_value + Abs(trade_shares) * price
                 new_position_size == Abs(position) + Abs(trade_shares)
             IN  [trade_pnl |-> 0,
                  entry_value |-> entry_value,
                  entry_price |-> IF new_position_size > 0
                                  THEN entry_value \div new_position_size
                                  ELSE price]
        ELSE IF (position > 0 /\ trade_shares < 0) \/ (position < 0 /\ trade_shares > 0)
        THEN LET shares_closed == Min(Abs(position), Abs(trade_shares))
                 trade_pnl == IF position > 0
                              THEN (price - r.entry_price) * shares_closed
                              ELSE (r.entry_price - price) * shares_closed
             IN  IF Abs(trade_shares) < Abs(position)
                 THEN LET basis == PartialClose(r, shares_closed)
                      IN  [trade_pnl |-> trade_pnl,
                           entry_value |-> basis.entry_value,
                           entry_price |-> basis.entry_price]
                 ELSE [trade_pnl |-> trade_pnl, entry_value |-> 0, entry_price |-> 0]
        ELSE IF (position > 0 /\ desired < 0) \/ (position < 0 /\ desired > 0)
        THEN [trade_pnl |-> IF position > 0
                            THEN (price - r.entry_price) * Abs(position)
                            ELSE (r.entry_price - price) * Abs(position),
              entry_value |-> Abs(desired) * price,
              entry_price |-> price]
        ELSE [trade_pnl |-> 0, entry_value |-> r.entry_value,
              entry_price |-> r.entry_price]

\* Variant: the closing consistency block is left out.
EnsureConsistent_skipped(position, entry_value, entry_price, current_price) ==
    [entry_value |-> entry_value, entry_price |-> entry_price]

\* Lines 324-335: make entry_price and entry_value consistent with the new position
EnsureConsistent(position, entry_value, entry_price, current_price) ==
    IF position # 0
    THEN LET ep == IF entry_price = 0 THEN current_price * MoneyScale ELSE entry_price
             ev == IF entry_value = 0 THEN Abs(position) * ep ELSE entry_value
         IN  [entry_value |-> ev, entry_price |-> ev \div Abs(position)]
    ELSE [entry_value |-> 0, entry_price |-> 0]

\* Lines 239-347: execute the trade that takes the position to desired
ExecuteTrade(self, r, desired, avail, current_date) ==
    LET current_bar == avail[current_date]
        current_price == current_bar.close
        trade_shares == desired - r.position
        trade_value == Abs(trade_shares * current_price) * MoneyScale
        basis == CostBasisTransition(r, desired, current_price)
        cost == compute_cost(self.cost_model, trade_value, current_price,
                             current_bar.volume, realized_vol(avail))
        cash == IF trade_shares > 0
                THEN r.cash - (trade_shares * current_price * MoneyScale + cost)
                ELSE r.cash - (trade_shares * current_price * MoneyScale - cost)
        action == IF trade_shares > 0 THEN "buy" ELSE "sell"
        entry_price ==
            IF trade_shares > 0
            THEN IF r.position = 0 \/ (r.position < 0 /\ desired > 0)
                 THEN current_price * MoneyScale ELSE basis.entry_price
            ELSE IF r.position = 0 \/ (r.position > 0 /\ desired < 0)
                 THEN current_price * MoneyScale ELSE basis.entry_price
        final == EnsureConsistent(desired, basis.entry_value, entry_price, current_price)
    IN  [r EXCEPT !.cash = cash,
                  !.position = desired,
                  !.entry_value = final.entry_value,
                  !.entry_price = final.entry_price,
                  !.trades_history =
                      Append(@, [date |-> current_date,
                                 action |-> action,
                                 quantity |-> Abs(trade_shares),
                                 price |-> current_price,
                                 pnl |-> basis.trade_pnl,
                                 position_after |-> desired])]

\* Variant: the forecast is remembered only on a bar that traded.
CloseBar_baseline_of_last_trade(r, fc, current_date, current_price) ==
    LET current_equity == Equity(r, current_price)
        peak_equity == IF current_equity > r.peak_equity THEN current_equity
                       ELSE r.peak_equity
        traded == r.trades_history # <<>> /\ Last(r.trades_history).date = current_date
    IN  [r EXCEPT !.i = current_date,
                  !.prev_forecast = IF traded THEN fc.direction ELSE @,
                  !.prev_confidence = IF traded THEN fc.confidence ELSE @,
                  !.peak_equity = peak_equity,
                  !.equity_history =
                      Append(@, EquityPoint(current_date, current_equity, peak_equity))]

\* Lines 361-379: remember the forecast, mark to market, record the equity point
CloseBar(r, fc, current_date, current_price) ==
    LET current_equity == Equity(r, current_price)
        peak_equity == IF current_equity > r.peak_equity THEN current_equity
                       ELSE r.peak_equity
    IN  [r EXCEPT !.i = current_date,
                  !.prev_forecast = fc.direction,
                  !.prev_confidence = fc.confidence,
                  !.peak_equity = peak_equity,
                  !.equity_history =
                      Append(@, EquityPoint(current_date, current_equity, peak_equity))]

\* Which way the loop body goes for the bar of date r.i + 1
BranchOf(self, r, bars_) ==
    LET current_date == r.i + 1
        avail == available_bars(bars_, current_date)
        current_price == avail[current_date].close
        sigs == signal_results(self, avail, current_date)
        fc == combine(self.ensemble, sigs)
        desired == desired_shares(self, r, fc, avail, current_price)
    IN  IF Len(avail) < MinBars THEN "warm_up"
        ELSE IF sigs = <<>> THEN "no_signals"
        ELSE IF check_drawdown_stop(self.constraints, Equity(r, current_price),
                                    r.peak_equity)
             THEN "drawdown_stop"
        ELSE IF Equity(r, current_price) <= 0 THEN "out_of_money"
        ELSE IF desired - r.position # 0
                /\ should_trade(self.constraints, fc.direction, r.prev_forecast,
                                fc.confidence, r.prev_confidence)
             THEN "trade"
        ELSE "hold"

\* One iteration of the loop of run(): the bar of date r.i + 1
StepBar(self, r, bars_) ==
    LET current_date == r.i + 1
        avail == available_bars(bars_, current_date)
        branch == BranchOf(self, r, bars_)
        current_price == avail[current_date].close
        fc == combine(self.ensemble, signal_results(self, avail, current_date))
    IN  CASE branch = "warm_up" ->
                 RecordSkippedBar(r, current_date, Last(avail).close)
          [] branch = "no_signals" ->
                 RecordSkippedBar(r, current_date, current_price)
          [] branch = "drawdown_stop" -> Break(r, "drawdown_stop")
          [] branch = "out_of_money" -> Break(r, "out_of_money")
          [] branch = "trade" ->
                 CloseBar(ExecuteTrade(self, r,
                                       desired_shares(self, r, fc, avail, current_price),
                                       avail, current_date),
                          fc, current_date, current_price)
          [] OTHER -> CloseBar(r, fc, current_date, current_price)

\* The loop has run out of dates: run() builds its result and returns
EndOfBars(r) == Break(r, "end_of_bars")

(***************************************************************************)
(* normalize_ohlcv (app/data/normalize.py)                                 *)
(*                                                                         *)
(* A frame is [has_required_columns, rows]; a row is [date, open, high,    *)
(* low, close, volume].  In the frame handed in, the date is Some(day) or  *)
(* None (NaT after to_datetime) and each number Some(integer) or None (NaN *)
(* after to_numeric); the rows that are kept carry the plain values.       *)
(* sort_values is called with the default kind, quicksort, which leaves    *)
(* the order of rows of equal date open: every order of the ties is an     *)
(* outcome.                                                                *)
(***************************************************************************)
Max3(a, b, c) == IF a >= b /\ a >= c THEN a ELSE IF b >= c THEN b ELSE c
Min3(a, b, c) == IF a <= b /\ a <= c THEN a ELSE IF b <= c THEN b ELSE c

\* Lines 52-61: rows with an invalid date or a NaN number are removed
dropna(rows) ==
    LET kept == SelectSeq(rows, LAMBDA r :
                     /\ r.date # None
                     /\ r.open # None /\ r.high # None /\ r.low # None
                     /\ r.close # None /\ r.volume # None)
    IN  [k \in DOMAIN kept |->
            [date |-> The(kept[k].date), open |-> The(kept[k].open),
             high |-> The(kept[k].high), low |-> The(kept[k].low),
             close |-> The(kept[k].close), volume |-> The(kept[k].volume)]]

Orderings(n) ==
    {p \in [1..n -> 1..n] : \A j, k \in 1..n : j # k => p[j] # p[k]}

\* df.sort_values("date"): the orders the sort may leave the rows in
sort_values(rows) ==
    {[k \in 1..Len(rows) |-> rows[p[k]]] :
        p \in {q \in Orderings(Len(rows)) :
                  \A k \in 1..(Len(rows) - 1) : rows[q[k]].date <= rows[q[k + 1]].date}}

\* df.drop_duplicates(subset=["date"], keep="last")
RECURSIVE drop_duplicates(_)
drop_duplicates(rows) ==
    IF rows = <<>> THEN <<>>
    ELSE IF \E k \in 2..Len(rows) : rows[k].date = Head(rows).date
         THEN drop_duplicates(Tail(rows))
         ELSE <<Head(rows)>> \o drop_duplicates(Tail(rows))

\* Lines 89-113: repair of high, then of low, then of volume, for one row
sanity_checks(r) ==
    LET invalid_high == r.high < Max3(r.open, r.close, r.low)
        invalid_low == r.low > Min3(r.open, r.close, r.high)
        high == IF invalid_high THEN Max3(r.open, r.close, r.low) ELSE r.high
        low == IF invalid_low THEN Min3(r.open, r.close, high) ELSE r.low
    IN  [r EXCEPT !.high = high, !.low = low,
                  !.volume = IF r.volume < 0 THEN 0 ELSE r.volume]

\* The results normalize_ohlcv may give for the frame
normalize_ohlcv(frame) ==
    IF ~frame.has_required_columns
    THEN {[raised |-> "ValueError", rows |-> <<>>]}
    ELSE {[raised |-> "",
           rows |-> [k \in DOMAIN again |-> sanity_checks(again[k])]] :
             again \in UNION {sort_values(drop_duplicates(sorted)) :
                                 sorted \in sort_values(dropna(frame.rows))}}

(***************************************************************************)
(* DataFetcher and DataCache (app/data/fetcher.py, app/data/cache.py)      *)
(*                                                                         *)
(* One ticker.  A date is a day number; the repository is the set of the   *)
(* dates of the bars it stores (the values of a bar play no part in the    *)
(* cache logic).  The provider is external: a call yields the bars of the  *)
(* trading days of the range that have happened, or fails (an exception    *)
(* or an empty frame, both of which store nothing).                        *)
(***************************************************************************)
SetMax(S) == CHOOSE x \in S : \A y \in S : y <= x
SetMin(S) == CHOOSE x \in S : \A y \in S : x <= y

\* DataRepository.get_latest_date
get_latest_date(repo) == IF repo = {} THEN None ELSE Some(SetMax(repo))

\* Variant: the age is compared the wrong way round.
needs_refresh_inverted(repo, today_, max_age_days) ==
    IF get_latest_date(repo) = None THEN TRUE
    ELSE today_ - The(get_latest_date(repo)) <= max_age_days

\* DataCache.needs_refresh
needs_refresh(repo, today_, max_age_days) ==
    IF get_latest_date(repo) = None THEN TRUE
    ELSE today_ - The(get_latest_date(repo)) > max_age_days

\* DataCache.get_bars: the stored dates of the range
cache_get_bars(repo, start_date, end_date) ==
    {d \in repo : start_date <= d /\ d <= end_date}

_next_trading_day(d) == d + 1

IsTradingDay(d) == d % 7 \notin {6, 0}

\* What provider.get_daily_bars returns when it works
get_daily_bars(today_, start, end) ==
    {d \in start..end : IsTradingDay(d) /\ d <= today_}

\* _fetch_and_cache: one provider call; its bars, when any, are stored
_fetch_and_cache(c, today_, start_date, end_date, provider_up) ==
    LET fetched == IF provider_up THEN get_daily_bars(today_, start_date, end_date)
                   ELSE {}
    IN  [c EXCEPT !.provider_calls = Append(@, <<start_date, end_date>>),
                  !.fetched = fetched,
                  !.repository = @ \cup fetched,
                  !.stored = @ \cup fetched,
                  !.cached_bars = IF c.first THEN fetched
                                  ELSE IF fetched # {} THEN @ \cup fetched ELSE @]

\* DataFetcher.get_bars: the call record at return.  provider_up says whether
\* the provider works during the call.
get_bars(repo, today_, start_date, end_date, use_cache, provider_up) ==
    LET cached == cache_get_bars(repo, start_date, end_date)
        c0 == [start_date |-> start_date, end_date |-> end_date,
               use_cache |-> use_cache, today |-> today_,
               latest_date |-> get_latest_date(repo),
               cached |-> cached, repository |-> repo,
               provider_up |-> provider_up,
               provider_calls |-> <<>>, fetched |-> {}, stored |-> {},
               cached_bars |-> cached, first |-> FALSE]
        direct == _fetch_and_cache([c0 EXCEPT !.first = TRUE], today_,
                                   start_date, end_date, provider_up)
    IN  IF ~use_cache \/ cached = {} THEN [direct EXCEPT !.first = FALSE]
        ELSE
        LET cached_start == SetMin(cached)
            cached_end == SetMax(cached)
            refresh == /\ needs_refresh(repo, today_, 1)
                       /\ today_ - end_date <= 30
            refresh_start == IF today_ - 30 < cached_end
                             THEN _next_trading_day(cached_end)
                             ELSE today_ - 30
            c1 == IF refresh /\ refresh_start <= today_
                  THEN _fetch_and_cache(c0, today_, refresh_start, today_, provider_up)
                  ELSE c0
            cached_end1 == IF c1.fetched # {} THEN SetMax(c1.cached_bars)
                           ELSE cached_end
            fetch_start == _next_trading_day(cached_end1)
        IN  IF cached_start <= start_date /\ cached_end >= end_date /\ ~refresh
            THEN c0
            ELSE IF cached_end1 < end_date /\ fetch_start <= end_date
                 THEN _fetch_and_cache(c1, today_, fetch_start, end_date, provider_up)
                 ELSE c1

\* Lines 262-287: the bars returned, filtered to the requested range
returned_bars(c) == {d \in c.cached_bars : c.start_date <= d /\ d <= c.end_date}

(***************************************************************************)
(* RegimeFilterSignal (app/signals/regime_signal.py)                       *)
(*                                                                         *)
(* The argument is the feature row compute() reads: has_row says whether   *)
(* the frame has a row at or before current_date at all, and each of       *)
(* realized_vol_20d, trend_vs_chop and vol_change is Some(number), or None *)
(* when the column is absent or the value is NaN.                          *)
(***************************************************************************)
\* Lines 80-90
vol_score(vol) ==
    IF IsNone(vol) THEN One
    ELSE IF RLt(The(vol), <<1, 20>>) THEN <<3, 10>>
    ELSE IF RLt(<<4, 5>>, The(vol)) THEN <<1, 5>>
    ELSE IF RLe(<<1, 10>>, The(vol)) /\ RLe(The(vol), <<1, 2>>) THEN One
    ELSE <<3, 5>>

\* Lines 92-97
trend_score(trend_strength) ==
    IF IsNone(trend_strength) THEN One
    ELSE RMin(RMul(The(trend_strength), <<2, 1>>), One)

\* Lines 99-106
vol_change_score(vol_change) ==
    IF IsNone(vol_change) THEN One
    ELSE IF RLt(The(vol_change), <<-1, 5>>) THEN <<6, 5>>
    ELSE IF RLt(<<3, 10>>, The(vol_change)) THEN <<1, 2>>
    ELSE One

\* np.clip(x, 0.0, 1.0)
clip01(x) == RMax(Zero, RMin(x, One))

\* Lines 108-115: no component score is ever None, so all three are averaged
final_score(vol, trend_strength, vol_change) ==
    clip01(RDiv(RAdd(RAdd(vol_score(vol), trend_score(trend_strength)),
                     vol_change_score(vol_change)),
                <<3, 1>>))

\* Lines 117-127
regime_confidence(vol, trend_strength) ==
    IF IsNone(vol) \/ IsNone(trend_strength) THEN <<1, 2>>
    ELSE IF /\ RLe(<<3, 20>>, The(vol)) /\ RLe(The(vol), <<2, 5>>)
            /\ RLt(<<3, 10>>, The(trend_strength))
         THEN <<9, 10>>
    ELSE IF RLt(vol_score(vol), <<2, 5>>) \/ RLt(trend_score(trend_strength), <<3, 10>>)
         THEN <<3, 10>>
    ELSE <<3, 5>>

\* RegimeFilterSignal.compute
RegimeFilterSignal_compute(current_features) ==
    LET vol == current_features.realized_vol_20d
        trend_strength == IF IsNone(current_features.trend_vs_chop) THEN None
                          ELSE Some(RAbs(The(current_features.trend_vs_chop)))
        vol_change == current_features.vol_change
    IN  IF ~current_features.has_row THEN SignalResult(RegimeName, Zero, Zero)
        ELSE IF IsNone(vol) /\ IsNone(trend_strength)
             THEN SignalResult(RegimeName, <<1, 2>>, Zero)
        ELSE SignalResult(RegimeName, final_score(vol, trend_strength, vol_change),
                          regime_confidence(vol, trend_strength))

(***************************************************************************)
(* State                                                                   *)
(***************************************************************************)
VARIABLES
    ensemble,     \* the EnsembleModel object: signal_weights, regime_weight, threshold
    signals,      \* argument of the latest combine call
    forecast,     \* Forecast returned by the latest combine call (None before)
    constraints,  \* the RiskConstraints object of the engine
    bars,         \* the bar series handed to run(), up to the date being processed
    run,          \* the local state of BacktestEngine.run
    initial_capital, \* the initial_capital the engine was constructed with, dollars
    cost_model,   \* the TransactionCostModel object of the engine
    bars2,        \* a second bar series, for a second run of the same engine
    run2,         \* the local state of the second run
    sizing_args,  \* arguments of the compute_position_size call in progress, or None
    position_size, \* what that call returns, or None
    df,           \* the frame handed to the normalize_ohlcv call in progress, or None
    normalized,   \* what that call returns, or None
    today,        \* date.today(), a day number
    repository,   \* DataRepository: the dates of the bars stored for the ticker
    prev_call,    \* the DataFetcher.get_bars call before the latest one, or None
    last_call,    \* the latest DataFetcher.get_bars call, or None
    current_features, \* feature row of the RegimeFilterSignal.compute call in
                      \* progress, or None
    signal_result \* what that call returns, or None

ensembleVars == <<ensemble, signals, forecast>>
engineVars == <<constraints, bars, run, initial_capital, cost_model>>
twinVars == <<bars2, run2>>
sizingVars == <<sizing_args, position_size>>
normalizeVars == <<df, normalized>>
fetcherVars == <<today, repository, prev_call, last_call>>
regimeVars == <<current_features, signal_result>>
serviceVars == <<sizingVars, normalizeVars, fetcherVars, regimeVars>>
vars == <<ensemble, signals, forecast, constraints, bars, run, initial_capital, cost_model,
          bars2, run2, sizing_args, position_size, df, normalized,
          today, repository, prev_call, last_call, current_features, signal_result>>

DefaultEnsemble == EnsembleModel(<<>>, <<3, 10>>, <<1, 10>>)

\* No call of the sizing function, the normalizer or the fetcher is in progress,
\* and the repository holds no bar
FirstToday == 36
SizingIdle == sizing_args = None /\ position_size = None
NormalizeIdle == df = None /\ normalized = None
FetcherIdle ==
    today = FirstToday /\ repository = {} /\ prev_call = None /\ last_call = None
RegimeIdle == current_features = None /\ signal_result = None
ServicesIdle == SizingIdle /\ NormalizeIdle /\ FetcherIdle /\ RegimeIdle

Self == BacktestEngine(ensemble, constraints, cost_model, initial_capital)
\* The engine is constructed and idle: no run is in progress
Idle == Break(RunStart(BacktestEngine(DefaultEnsemble, RiskConstraints(None, None),
                                      TransactionCostModel, InitialCapital)), "")

(***************************************************************************)
(* Inputs of the ensemble specification                                    *)
(***************************************************************************)
MaxSignals == 3

PresetMomentumKey == "Momentum"
PresetMeanReversionKey == "Mean Reversion"

TradingNames == {PresetMomentumKey, PresetMeanReversionKey}
ScoreConfidencePairs ==
    {<< <<2, 5>>, <<9, 10>> >>, << <<-2, 5>>, <<1, 10>> >>}
RegimeScoreConfidencePairs ==
    {<< <<1, 5>>, <<3, 10>> >>, << <<3, 5>>, <<9, 10>> >>}

SignalPool ==
    {SignalResult(nm, p[1], p[2]) : nm \in TradingNames, p \in ScoreConfidencePairs}
    \cup {SignalResult(RegimeGateName, p[1], p[2]) : p \in RegimeScoreConfidencePairs}

SignalLists == UNION {[1..n -> SignalPool] : n \in 0..MaxSignals}

NoWeights == <<>>
TrendPresetWeights ==
    (PresetMomentumKey :> <<3, 5>>) @@ (PresetMeanReversionKey :> <<1, 5>>)
ZeroWeights ==
    (PresetMomentumKey :> Zero) @@ (PresetMeanReversionKey :> Zero)
NegativeSumWeights ==
    (PresetMomentumKey :> <<1, 2>>) @@ (PresetMeanReversionKey :> <<-1, 1>>)

WeightMaps == {NoWeights, TrendPresetWeights, ZeroWeights, NegativeSumWeights}
WeightUpdates == {PresetMomentumKey :> Zero}
RegimeWeights == {Zero, <<3, 10>>, One}
Thresholds == {<<1, 10>>, <<1, 5>>}

(***************************************************************************)
(* Ensemble specification: construction, then any sequence of              *)
(* update_weights, set_threshold and combine calls                         *)
(***************************************************************************)
InitCombine ==
    /\ ensemble \in {EnsembleModel(w, rw, <<1, 10>>) :
                        w \in WeightMaps, rw \in RegimeWeights}
    /\ signals = <<>>
    /\ forecast = None
    /\ constraints = RiskConstraints(None, None)
    /\ initial_capital = InitialCapital
    /\ cost_model = TransactionCostModel
    /\ bars = <<>>
    /\ run = Idle
    /\ bars2 = <<>>
    /\ run2 = Idle
    /\ ServicesIdle

\* A caller invokes combine on a list of signal results and receives the Forecast.
Combine ==
    /\ forecast = None
    /\ \E sigs \in SignalLists :
        /\ signals' = sigs
        /\ forecast' = Some(combine(ensemble, sigs))
    /\ UNCHANGED <<ensemble, engineVars, twinVars, serviceVars>>

\* The caller has consumed the Forecast; the model object is idle again.
Return ==
    /\ forecast # None
    /\ signals' = <<>>
    /\ forecast' = None
    /\ UNCHANGED <<ensemble, engineVars, twinVars, serviceVars>>

UpdateWeights ==
    /\ forecast = None
    /\ \E nw \in WeightUpdates :
        ensemble' = update_weights(ensemble, nw)
    /\ UNCHANGED <<signals, forecast, engineVars, twinVars, serviceVars>>

SetThreshold ==
    /\ forecast = None
    /\ \E th \in Thresholds :
        ensemble' = set_threshold(ensemble, th)
    /\ UNCHANGED <<signals, forecast, engineVars, twinVars, serviceVars>>

NextCombine == Combine \/ Return \/ UpdateWeights \/ SetThreshold

SpecCombine == InitCombine /\ [][NextCombine]_vars

(***************************************************************************)
(* Inputs of the backtest specification                                    *)
(***************************************************************************)
MaxBars == 62

WarmUpClose == 50
Closes == {40, 100}
AverageVolume == 1000000

Row(momentum, meanrev, regime, vol) ==
    [momentum |-> momentum, meanrev |-> meanrev, regime |-> regime,
     realized_vol |-> vol]

\* daily volatilities: 0.063% a day (1% a year) and 1.26% a day (20% a year)
QuietDailyVol == <<2, 3175>>
UsualDailyVol == <<8, 635>>

\* strong agreement upwards, volatility NaN
LongRow == Row(Some(<<One, One>>), Some(<<<<1, 2>>, One>>),
               Some(<<One, <<9, 10>>>>), None)
\* the same signals in a very quiet market
LongQuietRow == Row(Some(<<One, One>>), Some(<<<<1, 2>>, One>>),
                    Some(<<One, <<9, 10>>>>), Some(QuietDailyVol))
\* weaker agreement upwards
LongWeakRow == Row(Some(<<<<1, 2>>, <<1, 2>>>>), Some(<<<<1, 2>>, <<1, 2>>>>),
                   Some(<<<<1, 2>>, <<1, 2>>>>), Some(QuietDailyVol))
\* strong agreement downwards
ShortQuietRow == Row(Some(<<<<-1, 1>>, One>>), Some(<<<<-1, 1>>, One>>),
                     Some(<<<<1, 5>>, <<3, 10>>>>), Some(QuietDailyVol))
\* no opinion
FlatRow == Row(Some(<<<<-1, 2>>, <<1, 2>>>>), Some(<<Zero, <<1, 2>>>>),
               Some(<<<<1, 2>>, <<3, 5>>>>), Some(UsualDailyVol))
\* every signal raises
FailingRow == Row(None, None, None, None)
\* the momentum signal raises; the others agree upwards, a little less sure
LongFadingRow == Row(None, Some(<<<<1, 2>>, <<9, 10>>>>),
                     Some(<<One, <<9, 10>>>>), Some(QuietDailyVol))
\* agreement upwards, less sure again
LongFadedRow == Row(Some(<<One, <<3, 4>>>>), Some(<<<<1, 2>>, <<9, 10>>>>),
                    Some(<<One, <<9, 10>>>>), Some(QuietDailyVol))
\* agreement downwards with little confidence
ShortWeakRow == Row(Some(<<<<-1, 1>>, <<1, 5>>>>), Some(<<<<-1, 1>>, <<1, 5>>>>),
                    Some(<<<<1, 5>>, <<1, 10>>>>), Some(QuietDailyVol))

FeatureRows == {LongRow, LongQuietRow, LongWeakRow, ShortQuietRow, FlatRow, FailingRow}

Bar(close, volume, features) ==
    [close |-> close, volume |-> volume, features |-> features]

WarmUpBar == Bar(WarmUpClose, AverageVolume, FlatRow)
BarKinds ==
    {Bar(c, AverageVolume, row) : c \in Closes, row \in {LongQuietRow, ShortQuietRow}}
    \cup {Bar(100, AverageVolume, LongRow),
          Bar(40, AverageVolume, FlatRow),
          Bar(40, AverageVolume, LongFadingRow),
          Bar(40, AverageVolume, LongFadedRow),
          Bar(40, AverageVolume, ShortWeakRow),
          Bar(100, AverageVolume, FailingRow),
          Bar(40, 0, LongQuietRow)}

\* The bars a series may have at date j
NextBars(j) == IF j < MinBars THEN {WarmUpBar} ELSE BarKinds

MaxDrawdowns == {None, Some(<<-1, 20>>)}
MaxDailyLosses == {None, Some(<<-1, 20>>)}
\* the stops are off, or one of them is configured
RiskSettings ==
    {RiskConstraints(md, dl) : md \in MaxDrawdowns, dl \in MaxDailyLosses}
    \ {RiskConstraints(Some(<<-1, 20>>), Some(<<-1, 20>>))}
InitialCapitals == {InitialCapital, 0, -100}
\* the default cost model, or one that charges nothing
CostModels == {TransactionCostModel, FreeCostModel}

(***************************************************************************)
(* Backtest specification: one run of BacktestEngine.run over a series of  *)
(* at most MaxBars bars; the bar of each date is drawn when the loop       *)
(* reaches it                                                              *)
(***************************************************************************)
Init ==
    /\ ensemble = DefaultEnsemble
    /\ signals = <<>>
    /\ forecast = None
    /\ constraints \in RiskSettings
    /\ initial_capital \in InitialCapitals
    /\ cost_model \in CostModels
    /\ (initial_capital # InitialCapital \/ cost_model # TransactionCostModel
           => constraints = RiskConstraints(None, None))
    /\ (initial_capital # InitialCapital => cost_model = TransactionCostModel)
    \* at the default capital, a stop is configured or trading is free
    /\ (initial_capital = InitialCapital /\ cost_model = TransactionCostModel
           => constraints # RiskConstraints(None, None))
    /\ bars = <<>>
    /\ run = RunStart(Self)
    /\ bars2 = <<>>
    /\ run2 = Idle
    /\ ServicesIdle

\* The loop reaches the next date, whose bar is `bar`, and the body goes `branch`
Reaches(bar, branch) ==
    /\ run.pc = "loop"
    /\ Len(bars) < MaxBars
    /\ bar \in NextBars(Len(bars) + 1)
    /\ BranchOf(Self, run, Append(bars, bar)) = branch

CurrentDate == run.i + 1
\* What the body computes for the bar `bar` of the next date
SignalsAt(bar) ==
    signal_results(Self, available_bars(Append(bars, bar), CurrentDate), CurrentDate)
ForecastAt(bar) == combine(ensemble, SignalsAt(bar))
DesiredAt(bar) ==
    desired_shares(Self, run, ForecastAt(bar),
                   available_bars(Append(bars, bar), CurrentDate), bar.close)

\* Fewer than MinBars bars are available: equity point only
WarmUp ==
    \E bar \in BarKinds \cup {WarmUpBar} :
        /\ Reaches(bar, "warm_up")
        /\ bars' = Append(bars, bar)
        /\ run' = RecordSkippedBar(run, CurrentDate, bar.close)
        /\ UNCHANGED <<ensemble, signals, forecast, constraints, initial_capital, cost_model,
                       twinVars, serviceVars>>

\* Every signal raised on this bar: equity point only
NoSignals ==
    \E bar \in BarKinds :
        /\ Reaches(bar, "no_signals")
        /\ bars' = Append(bars, bar)
        /\ run' = RecordSkippedBar(run, CurrentDate, bar.close)
        /\ UNCHANGED <<ensemble, signals, forecast, constraints, initial_capital, cost_model,
                       twinVars, serviceVars>>

\* check_drawdown_stop is true: the loop is left
DrawdownStop ==
    \E bar \in BarKinds :
        /\ Reaches(bar, "drawdown_stop")
        /\ bars' = Append(bars, bar)
        /\ signals' = SignalsAt(bar)
        /\ forecast' = Some(ForecastAt(bar))
        /\ run' = Break(run, "drawdown_stop")
        /\ UNCHANGED <<ensemble, constraints, initial_capital, cost_model, twinVars, serviceVars>>

\* current_equity <= 0: the loop is left
OutOfMoney ==
    \E bar \in BarKinds :
        /\ Reaches(bar, "out_of_money")
        /\ bars' = Append(bars, bar)
        /\ signals' = SignalsAt(bar)
        /\ forecast' = Some(ForecastAt(bar))
        /\ run' = Break(run, "out_of_money")
        /\ UNCHANGED <<ensemble, constraints, initial_capital, cost_model, twinVars, serviceVars>>

\* The position changes and the turnover gate is open: a trade is executed
Trade ==
    \E bar \in BarKinds :
        /\ Reaches(bar, "trade")
        /\ bars' = Append(bars, bar)
        /\ signals' = SignalsAt(bar)
        /\ forecast' = Some(ForecastAt(bar))
        /\ run' = CloseBar(ExecuteTrade(Self, run, DesiredAt(bar),
                                        available_bars(Append(bars, bar), CurrentDate),
                                        CurrentDate),
                           ForecastAt(bar), CurrentDate, bar.close)
        /\ UNCHANGED <<ensemble, constraints, initial_capital, cost_model, twinVars, serviceVars>>

\* No trade on this bar
Hold ==
    \E bar \in BarKinds :
        /\ Reaches(bar, "hold")
        /\ bars' = Append(bars, bar)
        /\ signals' = SignalsAt(bar)
        /\ forecast' = Some(ForecastAt(bar))
        /\ run' = CloseBar(run, ForecastAt(bar), CurrentDate, bar.close)
        /\ UNCHANGED <<ensemble, constraints, initial_capital, cost_model, twinVars, serviceVars>>

\* The series has no further date
Finish ==
    /\ run.pc = "loop"
    /\ run.i >= 1
    /\ Len(bars) = run.i
    /\ run' = EndOfBars(run)
    /\ UNCHANGED <<ensemble, signals, forecast, constraints, initial_capital, cost_model, bars,
                   twinVars, serviceVars>>

\* run() is handed an empty frame: BacktestError at entry
EmptyBars ==
    /\ run.pc = "loop"
    /\ run.i = 0
    /\ bars = <<>>
    /\ run' = Raise(run, "BacktestError")
    /\ UNCHANGED <<ensemble, signals, forecast, constraints, initial_capital, cost_model, bars,
                   twinVars, serviceVars>>

Next ==
    EmptyBars \/ WarmUp \/ NoSignals \/ DrawdownStop \/ OutOfMoney \/ Trade \/ Hold
        \/ Finish

Spec == Init /\ [][Next]_vars

(***************************************************************************)
(* Twin-run specification: the same engine runs over two complete series   *)
(* of CausalBars bars, one loop iteration of each run per step             *)
(***************************************************************************)
CausalBars == 61

CausalKinds ==
    {Bar(40, AverageVolume, LongQuietRow),
     Bar(40, AverageVolume, LongRow),
     Bar(100, AverageVolume, ShortQuietRow)}

CompleteSeries ==
    {[j \in 1..CausalBars |-> IF j < MinBars THEN WarmUpBar ELSE tail[j - MinBars + 1]] :
        tail \in [1..(CausalBars - MinBars + 1) -> CausalKinds]}

InitTwin ==
    /\ ensemble = DefaultEnsemble
    /\ signals = <<>>
    /\ forecast = None
    /\ constraints \in {RiskConstraints(md, None) : md \in MaxDrawdowns}
    /\ initial_capital = InitialCapital
    /\ cost_model = TransactionCostModel
    /\ bars \in CompleteSeries
    /\ bars2 \in CompleteSeries
    /\ run = RunStart(Self)
    /\ run2 = RunStart(Self)
    /\ ServicesIdle

\* The next loop iteration of a run over the complete series bars_, or its return
Advance(r, bars_) ==
    IF r.pc # "loop" THEN r
    ELSE IF r.i >= Len(bars_) THEN EndOfBars(r)
    ELSE StepBar(Self, r, bars_)

StepBoth ==
    /\ run.pc = "loop" \/ run2.pc = "loop"
    /\ run' = Advance(run, bars)
    /\ run2' = Advance(run2, bars2)
    /\ UNCHANGED <<ensemble, signals, forecast, constraints, initial_capital, cost_model, bars, bars2,
                   serviceVars>>

NextTwin == StepBoth

SpecTwin == InitTwin /\ [][NextTwin]_vars

(***************************************************************************)
(* Sizing specification: calls of compute_position_size on arguments drawn *)
(* from the sets below                                                     *)
(***************************************************************************)
SizingConfidences == {Zero, <<1, 10>>, <<1, 2>>, <<9, 10>>, One}
\* negative, zero, below vol_floor, quiet, usual, extreme
SizingVolatilities ==
    {<<-1, 100>>, Zero, <<1, 10000000>>, <<1, 1000>>, <<1, 100>>, <<10, 1>>}
SizingTargets == {None, Some(<<1, 50>>)}
SizingMaxSizes == {None, Some(<<3, 10>>)}

SizingArguments ==
    [forecast_direction : {"long", "flat", "short"},
     forecast_confidence : SizingConfidences,
     realized_volatility : SizingVolatilities,
     target_volatility : SizingTargets,
     max_position_size : SizingMaxSizes]

InitSizing ==
    /\ ensemble = DefaultEnsemble
    /\ signals = <<>>
    /\ forecast = None
    /\ constraints = RiskConstraints(None, None)
    /\ initial_capital = InitialCapital
    /\ cost_model = TransactionCostModel
    /\ bars = <<>>
    /\ run = Idle
    /\ bars2 = <<>>
    /\ run2 = Idle
    /\ ServicesIdle

\* A caller invokes compute_position_size and receives the size.
ComputePositionSize ==
    /\ sizing_args = None
    /\ \E a \in SizingArguments :
        /\ sizing_args' = Some(a)
        /\ position_size' =
               Some(compute_position_size(a.forecast_direction, a.forecast_confidence,
                                          a.realized_volatility, a.target_volatility,
                                          a.max_position_size))
    /\ UNCHANGED <<ensembleVars, engineVars, twinVars, normalizeVars, fetcherVars, regimeVars>>

\* The caller has consumed the size.
SizingReturn ==
    /\ sizing_args # None
    /\ sizing_args' = None
    /\ position_size' = None
    /\ UNCHANGED <<ensembleVars, engineVars, twinVars, normalizeVars, fetcherVars, regimeVars>>

NextSizing == ComputePositionSize \/ SizingReturn

SpecSizing == InitSizing /\ [][NextSizing]_vars

(***************************************************************************)
(* Normalizer specification: calls of normalize_ohlcv on frames of at most *)
(* MaxRows rows drawn from the rows below                                  *)
(***************************************************************************)
MaxRows == 3

OhlcvRow(date, open, high, low, close, volume) ==
    [date |-> date, open |-> Some(open), high |-> Some(high), low |-> Some(low),
     close |-> close, volume |-> Some(volume)]

OhlcvRows ==
    {OhlcvRow(Some(1), 10, 12, 9, Some(11), 100),   \* consistent
     OhlcvRow(Some(1), 10, 5, 20, Some(10), 100),   \* high and low both invalid
     OhlcvRow(Some(2), 10, 8, 9, Some(11), -5),     \* high invalid, volume negative
     OhlcvRow(Some(2), 10, 12, 11, Some(12), 0),    \* low invalid
     OhlcvRow(Some(1), 10, 12, 9, None, 100),       \* close is NaN
     OhlcvRow(None, 10, 12, 9, Some(11), 100)}      \* date is NaT

Frames ==
    {[has_required_columns |-> TRUE, rows |-> rows] :
        rows \in UNION {[1..n -> OhlcvRows] : n \in 0..MaxRows}}
    \cup {[has_required_columns |-> FALSE, rows |-> <<>>]}

InitNormalize == InitSizing

\* A caller invokes normalize_ohlcv on a frame and receives the result.
NormalizeOhlcv ==
    /\ df = None
    /\ \E frame \in Frames :
        /\ df' = Some(frame)
        /\ \E result \in normalize_ohlcv(frame) : normalized' = Some(result)
    /\ UNCHANGED <<ensembleVars, engineVars, twinVars, sizingVars, fetcherVars, regimeVars>>

\* The caller has consumed the result.
NormalizeReturn ==
    /\ df # None
    /\ df' = None
    /\ normalized' = None
    /\ UNCHANGED <<ensembleVars, engineVars, twinVars, sizingVars, fetcherVars, regimeVars>>

NextNormalize == NormalizeOhlcv \/ NormalizeReturn

SpecNormalize == InitNormalize /\ [][NextNormalize]_vars

(***************************************************************************)
(* Fetcher specification: get_bars calls on one DataFetcher while the days *)
(* go by                                                                   *)
(***************************************************************************)
LastToday == 38

\* an old range that ends on a trading day, an old range that ends on a
\* weekend, and two ranges of the last days
Requests == {<<1, 3>>, <<1, 6>>, <<30, 33>>, <<32, 36>>}

InitFetcher == InitSizing

\* A caller invokes get_bars and receives the bars.
GetBars ==
    /\ \E rq \in Requests, use_cache \in BOOLEAN, provider_up \in BOOLEAN :
        LET c == get_bars(repository, today, rq[1], rq[2], use_cache, provider_up)
        IN  /\ repository' = c.repository
            /\ last_call' = Some(c)
            /\ prev_call' = last_call
    /\ UNCHANGED <<today, ensembleVars, engineVars, twinVars, sizingVars, normalizeVars, regimeVars>>

\* Midnight: date.today() moves on
Tick ==
    /\ today < LastToday
    /\ today' = today + 1
    /\ UNCHANGED <<repository, prev_call, last_call,
                   ensembleVars, engineVars, twinVars, sizingVars, normalizeVars,
                   regimeVars>>

NextFetcher == GetBars \/ Tick

SpecFetcher == InitFetcher /\ [][NextFetcher]_vars

(***************************************************************************)
(* Regime specification: calls of RegimeFilterSignal.compute on feature    *)
(* rows drawn from the sets below                                          *)
(***************************************************************************)
\* missing, stagnant, acceptable, two in the sweet spot, crisis
RegimeVolatilities ==
    {None, Some(<<3, 100>>), Some(<<7, 100>>), Some(<<1, 10>>), Some(<<3, 10>>),
     Some(<<9, 10>>)}
\* missing, choppy, weak, clear upwards, strong downwards
RegimeTrends ==
    {None, Some(Zero), Some(<<1, 10>>), Some(<<2, 5>>), Some(<<-3, 5>>)}
\* missing, calming, steady, rising
RegimeVolChanges == {None, Some(<<-3, 10>>), Some(Zero), Some(<<2, 5>>)}

FeatureRow(has_row, vol, trend, vol_change) ==
    [has_row |-> has_row, realized_vol_20d |-> vol, trend_vs_chop |-> trend,
     vol_change |-> vol_change]

RegimeFeatureRows ==
    {FeatureRow(TRUE, v, t, vc) :
        v \in RegimeVolatilities, t \in RegimeTrends, vc \in RegimeVolChanges}
    \cup {FeatureRow(FALSE, None, None, None)}

InitRegime == InitSizing

\* The engine asks the regime signal for its result on a feature row.
RegimeCompute ==
    /\ current_features = None
    /\ \E row \in RegimeFeatureRows :
        /\ current_features' = Some(row)
        /\ signal_result' = Some(RegimeFilterSignal_compute(row))
    /\ UNCHANGED <<ensembleVars, engineVars, twinVars, sizingVars, normalizeVars,
                   fetcherVars>>

\* The engine has taken the result.
RegimeReturn ==
    /\ current_features # None
    /\ current_features' = None
    /\ signal_result' = None
    /\ UNCHANGED <<ensembleVars, engineVars, twinVars, sizingVars, normalizeVars,
                   fetcherVars>>

NextRegime == RegimeCompute \/ RegimeReturn

SpecRegime == InitRegime /\ [][NextRegime]_vars

(***************************************************************************)
(* Properties of EnsembleModel.combine (checked under SpecCombine)          *)
(***************************************************************************)
Directions == {"long", "flat", "short"}
Returned == forecast # None
InUnit(r) == RLe(Zero, r) /\ RLe(r, One)

ConfidenceVariants == {Zero, One}
WithConfidences(sigs, cs) ==
    [k \in DOMAIN sigs |-> [sigs[k] EXCEPT !.confidence = cs[k]]]

\* C3: two signal lists with the same names and scores but different
\* confidences get the same forecast direction from combine.
C3_DirectionIgnoresConfidence ==
    Returned =>
        \A cs \in [DOMAIN signals -> ConfidenceVariants] :
            combine(ensemble, WithConfidences(signals, cs)).direction
                = The(forecast).direction

\* The case of C3: a long forecast whose confidence changes when only the
\* confidences of the signals are replaced.
C3_Witness ==
    /\ Returned
    /\ The(forecast).direction = "long"
    /\ \E cs \in [DOMAIN signals -> ConfidenceVariants] :
           combine(ensemble, WithConfidences(signals, cs)).confidence
               # The(forecast).confidence

HasCustomWeights == DOMAIN ensemble.signal_weights # {}
TotalWeight == SumValues(ensemble.signal_weights, DOMAIN ensemble.signal_weights)
EqualWeightModel ==
    EnsembleModel(<<>>, ensemble.regime_weight, ensemble.threshold)

\* C5: with a custom weight mapping whose weights sum to <= 0, combine
\* returns the forecast of the equal-weight model.
C5_NonPositiveSumFallsBackToEqualWeights ==
    (Returned /\ HasCustomWeights /\ RLe(TotalWeight, Zero)) =>
        The(forecast) = combine(EqualWeightModel, signals)

ScaleFactors == {<<2, 1>>, <<1, 2>>}
ScaledWeights(sw, c) == [k \in DOMAIN sw |-> RMul(sw[k], c)]
ScaledModel(c) ==
    [ensemble EXCEPT !.signal_weights = ScaledWeights(ensemble.signal_weights, c)]

\* C6: multiplying every weight of the custom mapping by one positive
\* constant leaves the forecast (direction, confidence, size hint) unchanged.
C6_WeightScalingLeavesForecastUnchanged ==
    (Returned /\ HasCustomWeights) =>
        \A c \in ScaleFactors :
            combine(ScaledModel(c), signals) = The(forecast)

RegimeWeightGrid == {Zero, <<3, 10>>, <<1, 2>>, One}
WithRegimeWeight(rw) == [ensemble EXCEPT !.regime_weight = rw]
UnfavorableRegime ==
    /\ regime_signal(signals) # None
    /\ RLt(regime_multiplier(signals), <<1, 2>>)

\* C7: with an unfavorable regime (m < 0.5) and everything else fixed,
\* |weighted_sum| after regime scaling and the forecast confidence do not
\* increase when regime_weight increases within [0, 1].
C7_RegimeWeightMonotone ==
    (Returned /\ UnfavorableRegime) =>
        \A rw \in RegimeWeightGrid :
            RLe(ensemble.regime_weight, rw) =>
                /\ RLe(RAbs(weighted_sum(WithRegimeWeight(rw), signals)),
                       RAbs(weighted_sum(ensemble, signals)))
                /\ RLe(combine(WithRegimeWeight(rw), signals).confidence,
                       The(forecast).confidence)

\* The case of C7: an unfavorable regime where raising regime_weight to 1
\* strictly lowers both |weighted_sum| and the confidence.
C7_Witness ==
    /\ Returned
    /\ UnfavorableRegime
    /\ ensemble.regime_weight = Zero
    /\ RLt(RAbs(weighted_sum(WithRegimeWeight(One), signals)),
           RAbs(weighted_sum(ensemble, signals)))
    /\ RLt(combine(WithRegimeWeight(One), signals).confidence,
           The(forecast).confidence)

ForecastInRange(f) ==
    /\ f.direction \in Directions
    /\ InUnit(f.confidence)

SizeHintInRange(f) ==
    /\ f.suggested_position_size # None
    /\ InUnit(The(f.suggested_position_size))
    /\ (f.direction = "flat" => The(f.suggested_position_size) = Zero)

\* C8 as stated: every Forecast, the one for the empty list included, has a
\* direction in {long, flat, short}, a confidence in [0, 1] and a numeric
\* size hint in [0, 1] that is 0 when the direction is flat.
C8_EveryForecastHasNumericSizeHint ==
    Returned => (ForecastInRange(The(forecast)) /\ SizeHintInRange(The(forecast)))

\* C8 amended: every Forecast has a direction in {long, flat, short} and a
\* confidence in [0, 1]; for a non-empty signal list the size hint is a
\* number in [0, 1] that is 0 when flat; for the empty list the Forecast is
\* flat with confidence 0 and carries no size hint (None).
C8_ForecastRanges ==
    Returned =>
        /\ ForecastInRange(The(forecast))
        /\ IF signals = <<>>
           THEN /\ The(forecast).direction = "flat"
                /\ The(forecast).confidence = Zero
                /\ The(forecast).suggested_position_size = None
           ELSE SizeHintInRange(The(forecast))

\* The case of C8: a non-flat forecast with a size hint strictly inside (0, 1).
C8_Witness ==
    /\ Returned
    /\ signals # <<>>
    /\ The(forecast).direction # "flat"
    /\ The(forecast).suggested_position_size # None
    /\ RLt(Zero, The(The(forecast).suggested_position_size))
    /\ RLt(The(The(forecast).suggested_position_size), One)

(***************************************************************************)
(* Properties of BacktestEngine.run (checked under Spec)                   *)
(***************************************************************************)
TradeExecuted == Len(run'.trades_history) = Len(run.trades_history) + 1

\* The transaction cost of the trade just recorded in run', from its record
CostOfTrade ==
    LET tr == Last(run'.trades_history)
    IN  compute_cost(Self.cost_model, tr.quantity * tr.price * MoneyScale, tr.price,
                     Last(bars').volume, realized_vol(bars'))

\* C1: every executed trade, buy or sell, has a positive cost and leaves the
\* equity marked at the bar's close equal to the equity before it minus the cost.
C1_TradeReducesEquityByCost ==
    [][TradeExecuted =>
        /\ CostOfTrade > 0
        /\ Equity(run', Last(bars').close)
               = Equity(run, Last(bars').close) - CostOfTrade]_vars

\* C4: in a run, the result of the engine's regime signal is the regime gate
\* of combine: it is not among the trading signals, has no weight, and is the
\* regime_signal used for scaling.
C4_RegimeResultIsTheGate ==
    (forecast # None) =>
        \A k \in DOMAIN signals :
            signals[k].name = Self.signals[3] =>
                /\ regime_signal(signals) = Some(signals[k])
                /\ \A j \in DOMAIN trading_signals(signals) :
                       trading_signals(signals)[j] # signals[k]
                /\ Get(weights(ensemble, signals), signals[k].name) = Zero

\* C9: at every bar boundary, a zero position has entry_value = 0 and
\* entry_price = 0, and a non-zero position has
\* entry_price = entry_value / |position|.
C9_CostBasisInvariant ==
    /\ run.position = 0 => (run.entry_value = 0 /\ run.entry_price = 0)
    /\ run.position # 0 =>
           run.entry_price = run.entry_value \div Abs(run.position)

\* The case of C9: a long position was reversed into a short one by one trade,
\* and the position is open.
C9_Witness ==
    /\ run.position # 0
    /\ \E k \in DOMAIN run.trades_history :
           /\ k > 1
           /\ run.trades_history[k - 1].position_after > 0
           /\ run.trades_history[k].position_after < 0

\* The drawdown condition holds for the bar the step processes, and the bar
\* reaches the check (not a warm-up bar, at least one signal result).
DrawdownConditionAtStep ==
    /\ run.pc = "loop"
    /\ Len(bars') = Len(bars) + 1
    /\ Len(bars') >= MinBars
    /\ signal_results(Self, bars', Len(bars')) # <<>>
    /\ constraints.max_drawdown # None
    /\ run.peak_equity > 0
    /\ RLe(Rat(Equity(run, Last(bars').close) - run.peak_equity, run.peak_equity),
           The(constraints.max_drawdown))

\* C10: when the drawdown condition holds at a bar, no trade is executed on
\* that bar, and the run is over: nothing is traded on any later bar.
C10_DrawdownHalt ==
    [][/\ DrawdownConditionAtStep =>
              (run'.trades_history = run.trades_history /\ run'.pc = "returned")
       /\ run.pc = "returned" => run' = run]_vars

\* The case of C10: the run was stopped by the drawdown check on a bar whose
\* forecast direction differs from the previous one, with a position open.
C10_Witness ==
    /\ run.exit = "drawdown_stop"
    /\ run.position # 0
    /\ forecast # None
    /\ The(forecast).direction # run.prev_forecast

\* run() has returned its tuple (equity_curve, trades, metrics)
ReturnedOutput == run.pc = "returned" /\ run.exit # ""
PointDates == {run.equity_history[k].date : k \in DOMAIN run.equity_history}
TradeDates == {run.trades_history[k].date : k \in DOMAIN run.trades_history}

\* C11: when the drawdown stop triggers at bar t, the equity curve has an
\* equity point for every bar up to and including t.
C11_EquityPointForStopBar ==
    run.exit = "drawdown_stop" => PointDates = 1..Len(bars)

\* The single-day equity return of the k-th equity point (k > 1)
DailyReturn(k) ==
    Rat(run.equity_history[k].equity - run.equity_history[k - 1].equity,
        run.equity_history[k - 1].equity)

\* The daily-loss condition holds at the k-th equity point
DailyLossAt(k) ==
    /\ k > 1
    /\ run.equity_history[k - 1].equity > 0
    /\ check_daily_loss_stop(constraints, DailyReturn(k),
                             run.equity_history[k - 1].equity)

\* C12: with max_daily_loss configured, once a bar's single-day equity return
\* is <= max_daily_loss, no trade is executed on any later bar.
C12_DailyLossHalt ==
    \A k \in DOMAIN run.equity_history :
        DailyLossAt(k) =>
            \A d \in TradeDates : d <= run.equity_history[k].date

\* C13: a run with initial capital <= 0 is rejected at entry: it records no
\* equity point and returns no output.
C13_NonPositiveCapitalRejected ==
    initial_capital <= 0 => (run.equity_history = <<>> /\ ~ReturnedOutput)

\* C14: a run that returns an output was over a series of at least 60 bars.
C14_ShortSeriesGivesNoOutput ==
    (ReturnedOutput /\ run.exit = "end_of_bars") => Len(bars) >= MinBars

StrictlyIncreasingDates(history) ==
    \A k \in DOMAIN history : k > 1 => history[k - 1].date < history[k].date

\* C15: the equity curve and the trade log are each in strictly increasing
\* date order (at most one equity point and one trade record per bar date).
C15_StrictDateOrder ==
    /\ StrictlyIncreasingDates(run.equity_history)
    /\ StrictlyIncreasingDates(run.trades_history)

\* The case of C15: a finished run with a trade on each of two successive
\* bars and an equity point for every bar.
C15_Witness ==
    /\ run.exit = "end_of_bars"
    /\ Len(run.equity_history) = MaxBars
    /\ \E d \in TradeDates : d + 1 \in TradeDates

\* The last bar reached position sizing and its 20-day volatility is a number
SizedOnLastBar ==
    /\ forecast # None
    /\ run.i = Len(bars)
    /\ daily_vol(bars) # None
    /\ RLt(Zero, The(daily_vol(bars)))

\* C17: the realized volatility the engine passes to position sizing is the
\* daily one, the unit of the target volatility it is divided into.
C17_SizingGetsDailyVolatility ==
    SizedOnLastBar => realized_vol(bars) = The(daily_vol(bars))

\* C18: every emitted equity point has drawdown <= 0.
C18_DrawdownNeverPositive ==
    \A k \in DOMAIN run.equity_history :
        RLe(run.equity_history[k].drawdown, Zero)

\* The step executes a trade that takes the position to the opposite sign
ReverseTrade ==
    /\ TradeExecuted
    /\ \/ run.position > 0 /\ run'.position < 0
       \/ run.position < 0 /\ run'.position > 0

\* The realized P&L of closing `shares` shares of the position held before the
\* step at the close of the bar of the step, at the entry_price before the step
ClosedLegPnl(shares) ==
    IF run.position > 0
    THEN (Last(bars').close * MoneyScale - run.entry_price) * shares
    ELSE (run.entry_price - Last(bars').close * MoneyScale) * shares

\* C21: a trade that reverses the position realizes the P&L of the whole
\* existing leg at the entry_price before the trade, and afterwards
\* entry_price is the bar's close and entry_value is |desired| times it.
C21_ReverseTransition ==
    [][ReverseTrade =>
        /\ Last(run'.trades_history).pnl = ClosedLegPnl(Abs(run.position))
        /\ run'.entry_price = Last(bars').close * MoneyScale
        /\ run'.entry_value
               = Abs(run'.position) * Last(bars').close * MoneyScale]_vars

\* The case of C21: the latest bar reversed a short position into a long one
\* at a price other than the entry price of the short.
C21_Witness ==
    /\ run.position > 0
    /\ \E k \in DOMAIN run.trades_history :
           /\ k > 1
           /\ k = Len(run.trades_history)
           /\ run.trades_history[k].date = run.i
           /\ run.trades_history[k - 1].position_after < 0
           /\ run.trades_history[k].pnl # 0

\* The step executes a trade that reduces the position without closing it
PartialCloseTrade ==
    /\ TradeExecuted
    /\ Abs(run'.position) < Abs(run.position)
    /\ \/ run.position > 0 /\ run'.position > 0
       \/ run.position < 0 /\ run'.position < 0

\* C22: a trade that reduces the position without closing it realizes the
\* P&L of the shares closed at the entry_price before the trade, shrinks
\* entry_value by the ratio of remaining to original shares, and leaves
\* entry_price unchanged.
C22_PartialClose ==
    [][PartialCloseTrade =>
        /\ Last(run'.trades_history).pnl
               = ClosedLegPnl(Abs(run.position) - Abs(run'.position))
        /\ run'.entry_value
               = MulDiv(run.entry_value, Abs(run'.position), Abs(run.position))
        /\ run'.entry_value < run.entry_value
        /\ run'.entry_price = run.entry_price]_vars

\* The latest bar reduced an open position of the given sign, with a P&L
PartiallyClosed(sign) ==
    \E k \in DOMAIN run.trades_history :
        /\ k > 1
        /\ k = Len(run.trades_history)
        /\ run.trades_history[k].date = run.i
        /\ run.trades_history[k].position_after * sign > 0
        /\ run.trades_history[k - 1].position_after * sign
               > run.trades_history[k].position_after * sign
        /\ run.trades_history[k].pnl # 0

\* The case of C22: a long position was reduced at a price other than its
\* entry price.
C22_Witness == PartiallyClosed(1)

\* The forecast of the latest earlier bar that reached the ensemble; before
\* the first such bar, the baseline run() starts with
Baseline ==
    IF forecast = None THEN [direction |-> "flat", confidence |-> Zero]
    ELSE [direction |-> The(forecast).direction,
          confidence |-> The(forecast).confidence]

\* C23: a trade is executed on a bar only if the bar's forecast direction
\* differs from that of the previous bar that reached the ensemble, or the
\* two confidences differ by at least turnover_threshold; the previous bar
\* is the baseline whether or not it traded.
C23_TurnoverGate ==
    [][TradeExecuted =>
        \/ The(forecast').direction # Baseline.direction
        \/ RLe(constraints.turnover_threshold,
               RAbs(RSub(The(forecast').confidence, Baseline.confidence)))]_vars

\* The forecast the ensemble gives for the bar of date k
ForecastOfBar(k) == combine(ensemble, signal_results(Self, bars, k))
ConfidenceStep(j, k) ==
    RAbs(RSub(ForecastOfBar(k).confidence, ForecastOfBar(j).confidence))

\* The case of C23: three successive bars of one direction; the first traded,
\* each step of confidence is below the threshold, the two steps together are
\* not, and neither the second nor the third bar traded.
C23_Witness ==
    /\ run.i = Len(bars)
    /\ run.i >= MinBars + 2
    /\ run.position # 0
    /\ ForecastOfBar(run.i).direction = ForecastOfBar(run.i - 1).direction
    /\ ForecastOfBar(run.i).direction = ForecastOfBar(run.i - 2).direction
    /\ RLt(ConfidenceStep(run.i - 2, run.i - 1), constraints.turnover_threshold)
    /\ RLt(ConfidenceStep(run.i - 1, run.i), constraints.turnover_threshold)
    /\ RLe(constraints.turnover_threshold, ConfidenceStep(run.i - 2, run.i))
    /\ run.i - 2 \in TradeDates
    /\ run.i - 1 \notin TradeDates
    /\ run.i \notin TradeDates

\* The step processes a bar for which fewer than 60 bars are available
WarmUpStep ==
    /\ run.pc = "loop"
    /\ Len(bars') = Len(bars) + 1
    /\ Len(bars') < MinBars

\* The step appends one equity point, the mark-to-market equity at the close
\* of the bar of the step, and changes nothing else of the run
RecordsPointOnly ==
    /\ run'.equity_history # <<>>
    /\ run' = [run EXCEPT !.i = Len(bars'),
                          !.equity_history = Append(@, Last(run'.equity_history))]
    /\ Last(run'.equity_history).date = Len(bars')
    /\ Last(run'.equity_history).equity = Equity(run, Last(bars').close)

\* C24: a bar for which fewer than 60 bars are available gets exactly one
\* equity point at mark-to-market and changes nothing else; no trade is dated
\* within the first 59 bars and the equity there is the initial capital.
C24_WarmUpRecordsOnly ==
    [][/\ WarmUpStep => RecordsPointOnly
       /\ \A k \in DOMAIN run'.trades_history :
              run'.trades_history[k].date >= MinBars
       /\ \A k \in DOMAIN run'.equity_history :
              run'.equity_history[k].date < MinBars =>
                  run'.equity_history[k].equity = initial_capital * MoneyScale]_vars

\* The case of C24: 59 warm-up bars, then a trade on the 60th bar.
C24_Witness ==
    /\ run.i = MinBars
    /\ Len(run.equity_history) = MinBars
    /\ TradeDates = {MinBars}

\* The results of the signals that do not raise on a row, in the engine's order
Remaining(row) ==
    (IF row.momentum = None THEN <<>>
     ELSE <<SignalResult(MomentumName, The(row.momentum)[1], The(row.momentum)[2])>>)
    \o (IF row.meanrev = None THEN <<>>
        ELSE <<SignalResult(MeanReversionName, The(row.meanrev)[1],
                            The(row.meanrev)[2])>>)
    \o (IF row.regime = None THEN <<>>
        ELSE <<SignalResult(RegimeName, The(row.regime)[1], The(row.regime)[2])>>)

\* The step processes a bar past the warm-up
SignalStep ==
    /\ run.pc = "loop"
    /\ Len(bars') = Len(bars) + 1
    /\ Len(bars') >= MinBars

\* C25: a signal that raises on a bar is left out and the remaining ones are
\* combined; when every signal raises, the bar gets its equity point, nothing
\* else of the run changes, and the run continues.
C25_SignalFailureIsBarLocal ==
    [][SignalStep =>
        LET remaining == Remaining(Last(bars').features)
        IN  /\ remaining # <<>> =>
                   /\ signals' = remaining
                   /\ forecast' = Some(combine(ensemble, remaining))
            /\ remaining = <<>> =>
                   /\ RecordsPointOnly
                   /\ run'.pc = "loop"
                   /\ forecast' = forecast]_vars

\* The case of C25: a bar on which every signal raised while a position was
\* open, then a bar on which one signal raised and the other two led to a trade.
C25_Witness ==
    /\ run.i = Len(bars)
    /\ run.i > MinBars + 1
    /\ Remaining(bars[run.i - 1].features) = <<>>
    /\ run.i - 1 \in PointDates
    /\ Len(Remaining(bars[run.i].features)) = 2
    /\ signals = Remaining(bars[run.i].features)
    /\ run.i \in TradeDates
    /\ run.i - 2 \in TradeDates

RECURSIVE SumPnl(_, _)
\* The sum of the realized P&L of the first k trade records
SumPnl(history, k) == IF k = 0 THEN 0 ELSE SumPnl(history, k - 1) + history[k].pnl
RECURSIVE SumQuantity(_, _)
\* The number of shares traded in the first k trade records
SumQuantity(history, k) ==
    IF k = 0 THEN 0 ELSE SumQuantity(history, k - 1) + history[k].quantity

\* (p - entry_price) * position at the close of the latest bar
UnrealizedPnl == (Last(bars).close * MoneyScale - run.entry_price) * run.position

\* entry_price and entry_value are rounded down to the money unit, which can
\* cost up to one unit for each share held or traded
RoundingSlack == Abs(run.position) + SumQuantity(run.trades_history,
                                                 Len(run.trades_history))

\* C28: with a cost model that charges nothing, at every bar boundary
\* cash + position * price = initial_capital + (sum of the realized P&L of
\* the trade records) + unrealized P&L, to the rounding of the money unit.
C28_AccountingIdentity ==
    (cost_model = FreeCostModel /\ bars # <<>> /\ run.i = Len(bars)) =>
        Abs(Equity(run, Last(bars).close)
            - (initial_capital * MoneyScale
               + SumPnl(run.trades_history, Len(run.trades_history))
               + UnrealizedPnl)) <= RoundingSlack

\* The case of C28: three trades at no cost, the second closing shares at a
\* profit or loss and the third adding to the position at another price.
C28_Witness ==
    /\ cost_model = FreeCostModel
    /\ run.i = Len(bars)
    /\ Len(run.trades_history) = 3
    /\ run.trades_history[2].pnl # 0
    /\ run.trades_history[3].pnl = 0
    /\ Abs(run.position) > Abs(run.trades_history[2].position_after)
    /\ run.trades_history[2].position_after # 0
    /\ UnrealizedPnl # 0

\* The latest bar got a forecast from the ensemble (lines 158-182)
BarReachedEnsemble ==
    /\ bars # <<>>
    /\ Len(bars) >= MinBars
    /\ Remaining(Last(bars).features) # <<>>
    /\ forecast # None

\* C29 as stated: after every bar that reaches the ensemble the position is 0
\* if the bar's forecast is flat, >= 0 if it is long and <= 0 if it is short.
\* A bar on which the loop is left (drawdown stop, equity <= 0) has a forecast
\* and keeps the position of the bar before.
C29_PositionAgreesWithBarForecast ==
    BarReachedEnsemble =>
        /\ The(forecast).direction = "flat" => run.position = 0
        /\ The(forecast).direction = "long" => run.position >= 0
        /\ The(forecast).direction = "short" => run.position <= 0

\* C29 for the bars that complete the loop body: the position never
\* contradicts the forecast direction of the latest bar that went through the
\* ensemble and was not the bar of a halt: it is 0 if that direction is flat,
\* >= 0 if it is long and <= 0 if it is short, also when the gate blocked
\* the trade.
C29_PositionAgreesWithForecast ==
    /\ run.prev_forecast = "flat" => run.position = 0
    /\ run.prev_forecast = "long" => run.position >= 0
    /\ run.prev_forecast = "short" => run.position <= 0

\* The case of C29: the gate blocked a trade on the latest bar: the bar asked
\* for another number of shares than the position held, and nothing traded.
C29_Witness ==
    /\ run.i = Len(bars)
    /\ run.i > MinBars
    /\ run.pc = "loop"
    /\ run.i \notin TradeDates
    /\ run.position # 0
    /\ signals # <<>>
    /\ ForecastOfBar(run.i).direction = run.prev_forecast
    /\ ForecastOfBar(run.i).confidence # ForecastOfBar(run.i - 1).confidence
    /\ desired_shares(Self, run, ForecastOfBar(run.i), bars, Last(bars).close)
           # run.position

(***************************************************************************)
(* Properties of compute_position_size (checked under SpecSizing)          *)
(***************************************************************************)
\* The size the contract gives for the arguments a
ContractSize(a) ==
    LET target_vol == OrDefault(a.target_volatility, settings.target_volatility)
        max_size == OrDefault(a.max_position_size, settings.max_position_size)
    IN  IF a.forecast_direction = "flat" THEN Zero
        ELSE RMax(Zero,
                  RMin(max_size,
                       RMul(RDiv(target_vol, RMax(a.realized_volatility, VolFloor)),
                            a.forecast_confidence)))

\* C16: compute_position_size returns 0 when flat and otherwise
\* (target_vol / max(realized_vol, vol_floor)) * confidence clipped to
\* [0, max_size], also for realized_vol <= 0; the result never exceeds max_size.
C16_SizeIsClippedVolTarget ==
    sizing_args # None =>
        /\ The(position_size) = ContractSize(The(sizing_args))
        /\ RLe(The(position_size),
               OrDefault(The(sizing_args).max_position_size,
                         settings.max_position_size))

(***************************************************************************)
(* Properties of normalize_ohlcv (checked under SpecNormalize)             *)
(***************************************************************************)
NormalizedRows == The(normalized).rows
BarConsistent(r) ==
    /\ r.high >= Max3(r.open, r.close, r.low)
    /\ r.low <= Min3(r.open, r.close, r.high)
    /\ r.volume >= 0

\* The last row of the input, among its rows that are kept, with the date d
LastInputRowDated(d) ==
    LET kept == dropna(The(df).rows)
        last == CHOOSE k \in DOMAIN kept :
                    /\ kept[k].date = d
                    /\ \A j \in DOMAIN kept : kept[j].date = d => j <= k
    IN  kept[last]

\* C19: for an input with the required columns, every returned bar has
\* high >= max(open, close, low), low <= min(open, close, high) and
\* volume >= 0, dates are strictly increasing, and each date carries the
\* last-occurring input row of that date.
C19_NormalizedBarsAreConsistent ==
    (normalized # None /\ The(df).has_required_columns) =>
        /\ The(normalized).raised = ""
        /\ \A k \in DOMAIN NormalizedRows : BarConsistent(NormalizedRows[k])
        /\ StrictlyIncreasingDates(NormalizedRows)
        /\ \A k \in DOMAIN NormalizedRows :
               NormalizedRows[k]
                   = sanity_checks(LastInputRowDated(NormalizedRows[k].date))

(***************************************************************************)
(* Properties of DataFetcher.get_bars (checked under SpecFetcher)          *)
(***************************************************************************)
\* The latest call repeats the call before it, both with use_cache=True, and
\* the call before it fetched bars from the provider and stored them.
SecondIdenticalCall ==
    /\ prev_call # None /\ last_call # None
    /\ The(prev_call).use_cache /\ The(last_call).use_cache
    /\ The(last_call).start_date = The(prev_call).start_date
    /\ The(last_call).end_date = The(prev_call).end_date
    /\ The(prev_call).provider_calls # <<>>
    /\ The(prev_call).stored # {}

\* C20 as stated: a second identical get_bars call makes zero provider calls.
C20_SecondCallMakesNoProviderCall ==
    SecondIdenticalCall => The(last_call).provider_calls = <<>>

\* At the second call the cache holds a bar dated end_date, and it is fresh
\* (latest bar at most one day old) or the range ended over 30 days ago.
CacheCoversAndIsFresh ==
    /\ The(last_call).end_date \in The(last_call).cached
    /\ \/ The(last_call).today - The(The(last_call).latest_date) <= 1
       \/ The(last_call).today - The(last_call).end_date > 30

\* C20 amended: a second identical get_bars call makes zero provider calls
\* and returns the cached bars of the range when the cache holds a bar dated
\* end_date and needs no refresh; when the range ends on a day without a bar,
\* the missing tail is requested from the provider again.
C20_SecondCallServedFromFreshCoveringCache ==
    /\ (SecondIdenticalCall /\ CacheCoversAndIsFresh) =>
           /\ The(last_call).provider_calls = <<>>
           /\ returned_bars(The(last_call)) = The(last_call).cached
    /\ (SecondIdenticalCall /\ The(last_call).cached # {}
           /\ SetMax(The(last_call).cached) < The(last_call).end_date) =>
           The(last_call).provider_calls # <<>>

\* The case of C20: a range of the last days was fetched and stored, and the
\* identical second call, on the same day, was served from the cache.
C20_Witness ==
    /\ SecondIdenticalCall
    /\ CacheCoversAndIsFresh
    /\ The(last_call).today - The(last_call).end_date <= 30
    /\ The(last_call).provider_calls = <<>>

(***************************************************************************)
(* Causality (checked under SpecTwin)                                      *)
(***************************************************************************)
AgreeUpTo(k) == \A j \in 1..k : bars[j] = bars2[j]
DatedUpTo(history, k) == SelectSeq(history, LAMBDA e : e.date <= k)

\* C2: if two series agree on the bars of indices <= k, the two runs have the
\* same equity points and the same trade records dated <= k.
C2_Causality ==
    \A k \in 0..CausalBars :
        AgreeUpTo(k) =>
            /\ DatedUpTo(run.equity_history, k) = DatedUpTo(run2.equity_history, k)
            /\ DatedUpTo(run.trades_history, k) = DatedUpTo(run2.trades_history, k)

\* The case of C2: two finished runs over series that differ only in the last
\* bar, with a trade before it, whose results differ after it.
C2_Witness ==
    /\ run.pc = "returned" /\ run2.pc = "returned"
    /\ AgreeUpTo(CausalBars - 1)
    /\ bars # bars2
    /\ DatedUpTo(run.trades_history, CausalBars - 1) # <<>>
    /\ run.equity_history # run2.equity_history


(***************************************************************************)
(* Properties of the applied weights (checked under SpecCombine)           *)
(***************************************************************************)
RECURSIVE SumAppliedWeights(_, _)
\* The sum of weights.get(signal.name, 0.0) over the trading signals ts
SumAppliedWeights(ts, w) ==
    IF ts = <<>> THEN Zero
    ELSE RAdd(Get(w, Head(ts).name), SumAppliedWeights(Tail(ts), w))

\* C26: with a custom weight mapping of positive total, the weights combine
\* applies to the trading signals present in the call sum to 1.
C26_AppliedWeightsSumToOne ==
    (/\ Returned
     /\ HasCustomWeights
     /\ RLt(Zero, TotalWeight)
     /\ trading_signals(signals) # <<>>) =>
        SumAppliedWeights(trading_signals(signals), weights(ensemble, signals)) = One

(***************************************************************************)
(* Properties of RegimeFilterSignal.compute (checked under SpecRegime)     *)
(***************************************************************************)
\* The scores of the components whose feature is available on the row
AvailableScores(row) ==
    (IF IsNone(row.realized_vol_20d) THEN <<>>
     ELSE <<vol_score(row.realized_vol_20d)>>)
    \o (IF IsNone(row.trend_vs_chop) THEN <<>>
        ELSE <<trend_score(Some(RAbs(The(row.trend_vs_chop))))>>)
    \o (IF IsNone(row.vol_change) THEN <<>>
        ELSE <<vol_change_score(row.vol_change)>>)

RECURSIVE SumSeq(_)
SumSeq(q) == IF q = <<>> THEN Zero ELSE RAdd(Head(q), SumSeq(Tail(q)))

\* C27: the score of the regime signal is the mean of the scores of the
\* available components only, clipped to [0, 1].
C27_MeanOfAvailableComponents ==
    (/\ current_features # None
     /\ The(current_features).has_row
     /\ AvailableScores(The(current_features)) # <<>>) =>
        The(signal_result).score
            = clip01(RDiv(SumSeq(AvailableScores(The(current_features))),
                          <<Len(AvailableScores(The(current_features))), 1>>))

(***************************************************************************)
(* Cache transparency of DataFetcher.get_bars (checked under SpecFetcher)  *)
(***************************************************************************)
\* C30: whatever calls came before, get_bars with use_cache=True returns the
\* bars of the dates a direct provider fetch of the range returns (the
\* provider working during the call).
C30_CacheIsTransparent ==
    (/\ last_call # None
     /\ The(last_call).use_cache
     /\ The(last_call).provider_up) =>
        returned_bars(The(last_call))
            = get_daily_bars(The(last_call).today, The(last_call).start_date,
                             The(last_call).end_date)

====
